---- MODULE Spec2Model ----
(***************************************************************************)
(* Model of the geospatial tiling, area-insights aggregation and geocoding *)
(* code of geo-intent-proc:                                                *)
(*   tools/grid.py            TileGenerator                                *)
(*   tools/places.py          PlacesAggregateAPI._post_request,            *)
(*                            compute_insights                             *)
(*   tools/geocoding.py       GeocodingAPI.geocode, get_coordinates        *)
(*   tools/agent_functions.py geocode_address,                             *)
(*                            find_places_nearby_polygon,                  *)
(*                            find_places_in_grid                          *)
(*   callbacks.py             store_results_in_context                     *)
(*   agent.py                 GeoCoderAgent._run_async_impl                *)
(*                                                                         *)
(* Numbers.  Python floats are modelled as fixed-point integers, every     *)
(* operation rounding to the nearest representable value:                  *)
(*   - angles (latitudes, longitudes, tile sizes) are counted in units of  *)
(*     1e-10 degree, so that the loop epsilon of grid.py (1e-9 degree) is  *)
(*     10 units and the rounding error of one operation (half a unit) is   *)
(*     well below it, as it is for doubles;                                *)
(*   - angles are offsets from an anchor point `origin` (micro-degrees),   *)
(*     which only the cosine of a latitude needs;                          *)
(*   - lengths are counted in tenths of a millimetre, areas in 0.01 m^2    *)
(*     and 0.0001 km^2 (the two roundings of grid.py lines 134-135);       *)
(*   - cosines and radians are scaled by 1e9, sqrt by SqrtScale.           *)
(***************************************************************************)
EXTENDS Integers, Sequences, FiniteSets, TLC

----------------------------------------------------------------------------
(* Fixed-point arithmetic                                                   *)

\* the largest integer of the checker (32 bits)
MaxInt == (2^30 - 1) + 2^30

Abs(x) == IF x < 0 THEN -x ELSE x

Sgn(x) == IF x < 0 THEN -1 ELSE IF x > 0 THEN 1 ELSE 0

\* <<carry, (x + y) mod c>> for 0 <= x, y < c, without computing x + y
AddMod(x, y, c) == IF x >= c - y THEN <<1, x - (c - y)>> ELSE <<0, x + y>>

\* one step of the binary long multiplication: from h = <<q, r>> with
\* a*(b \div 2) = q*c + r to the pair for a*b
MulModStep(h, a, b, c) ==
    LET d == AddMod(h[2], h[2], c)
        e == IF b % 2 = 1 THEN AddMod(d[2], a, c) ELSE <<0, d[2]>>
    IN  <<2 * h[1] + d[1] + e[1], e[2]>>

\* <<q, r>> with a*b = q*c + r and 0 <= r < c, for 0 <= a < c, b >= 0
\* (binary long multiplication, no intermediate value exceeds c or q; the
\* pair for b \div 2 is bound as the element of a set, to be computed once)
RECURSIVE MulModSmall(_, _, _)
MulModSmall(a, b, c) ==
    IF b = 0 THEN <<0, 0>>
    ELSE CHOOSE qr \in { MulModStep(h, a, b, c) :
                            h \in { MulModSmall(a, b \div 2, c) } } : TRUE

\* <<q, r>> with a*b = q*c + r and 0 <= r < c, for a, b >= 0 and c > 0
MulDivMod(a, b, c) ==
    IF b = 0 \/ a <= MaxInt \div b
    THEN <<(a * b) \div c, (a * b) % c>>
    ELSE LET s == MulModSmall(a % c, b, c)
         IN  <<(a \div c) * b + s[1], s[2]>>

\* a*b/c rounded to the nearest integer (a float multiplication/division)
MulDiv(a, b, c) ==
    LET qr == MulDivMod(Abs(a), Abs(b), c)
        q  == IF qr[2] >= c - qr[2] THEN qr[1] + 1 ELSE qr[1]
    IN  Sgn(a) * Sgn(b) * q

\* a/b rounded to the nearest integer
RoundDiv(a, b) == MulDiv(a, 1, b)

\* a*b / (10*c) rounded to the nearest integer in one rounding, for a
\* divisor 10*c beyond the range of the integers: the tenths digit of the
\* floor of a*b/c decides
MulDivTen(a, b, c) ==
    LET q == MulDivMod(Abs(a), Abs(b), c)[1]
    IN  Sgn(a) * Sgn(b) * ((q \div 10) + (IF q % 10 >= 5 THEN 1 ELSE 0))

Pow6 == 10^6
Pow9 == 10^9

\* scale of the fixed-point square root
SqrtScale == 10^3

RECURSIVE SqrtSearch(_, _, _)
SqrtSearch(v, lo, hi) ==
    IF lo >= hi THEN lo
    ELSE LET mid == (lo + hi + 1) \div 2
         IN  IF mid * mid <= v THEN SqrtSearch(v, mid, hi)
             ELSE SqrtSearch(v, lo, mid - 1)

\* math.sqrt(n), scaled by SqrtScale, rounded to nearest (n <= 2000)
Sqrt(n) ==
    LET v == n * SqrtScale * SqrtScale
        r == SqrtSearch(v, 0, 46340)
    IN  IF v - r * r > r THEN r + 1 ELSE r

\* math.radians of a latitude in micro-degrees, scaled by 1e9
\* (pi/180 = 0.01745329252)
Radians(a) == MulDiv(a, 1745329252, 100000000)

\* Taylor polynomials on [0, pi/4] in Horner form, argument and result scaled
\* by 1e9: 1 - x2/(k(k-1)) * (1 - x2/((k+2)(k+1)) * (...)) up to k = last
RECURSIVE SeriesTail(_, _, _)
SeriesTail(x2, k, last) ==
    IF k > last THEN Pow9
    ELSE Pow9 - RoundDiv(MulDiv(x2, SeriesTail(x2, k + 2, last), Pow9),
                         k * (k - 1))

CosSeries(x) == SeriesTail(MulDiv(x, x, Pow9), 2, 10)

SinSeries(x) == MulDiv(x, SeriesTail(MulDiv(x, x, Pow9), 3, 9), Pow9)

\* math.cos(math.radians(lat)) scaled by 1e9, lat in micro-degrees, for
\* |lat| <= 135 degrees: cos(a) = sin(90 - a) beyond 45 degrees, which is
\* negative beyond 90 degrees
Cos(lat) ==
    LET a == Abs(lat)
    IN  IF a <= 45 * Pow6 THEN CosSeries(Radians(a))
        ELSE IF a <= 90 * Pow6 THEN SinSeries(Radians(90 * Pow6 - a))
        ELSE -SinSeries(Radians(a - 90 * Pow6))

----------------------------------------------------------------------------
(* Units and program constants                                              *)

\* angle units (1e-10 degree) per micro-degree
UnitsPerMicroDeg == 10^4

\* grid.py line 101: epsilon = 1e-9 degree, in angle units
epsilon == 10

\* grid.py lines 56 and 97: 111132.954 metres per degree, in length units
\* (0.1 mm) per degree
m_per_deg_lat == 1111329540

\* grid.py lines 57 and 98: 111319.488 metres per degree, in length units
m_per_deg_lon_base == 1113194880

\* grid.py line 61: the substitute divisor 0.001 (metres per degree), in
\* length units
PoleDivisor == 10

\* HalfDegrees with the halving of the box size forgotten
WholeDegrees(length, m_per_deg) ==
    LET qr == MulDivMod(Abs(length), 100000, Abs(m_per_deg))
    IN  Sgn(length) * Sgn(m_per_deg)
          * (qr[1] * 100000 + MulDiv(qr[2], 100000, Abs(m_per_deg)))

\* HalfDegrees of the magnitude of the box size, its sign forgotten
HalfDegreesOfMagnitude(length, m_per_deg) ==
    LET qr == MulDivMod(Abs(length), 50000, Abs(m_per_deg))
    IN  Sgn(m_per_deg)
          * (qr[1] * 100000 + MulDiv(qr[2], 100000, Abs(m_per_deg)))

\* a length divided by twice a metres-per-degree factor: the angle, in
\* angle units, of (length / 2) / m_per_deg; this is
\* length * 5e9 / m_per_deg, computed in two exact stages
HalfDegrees(length, m_per_deg) ==
    LET qr == MulDivMod(Abs(length), 50000, Abs(m_per_deg))
    IN  Sgn(length) * Sgn(m_per_deg)
          * (qr[1] * 100000 + MulDiv(qr[2], 100000, Abs(m_per_deg)))

\* an angle (angle units) multiplied by a metres-per-degree factor: the
\* length in length units, angle * m_per_deg / 1e10
Length(angle, m_per_deg) == MulDivTen(angle, m_per_deg, Pow9)

\* the product of two lengths, in m^2 rounded to 2 decimals (units of
\* 0.01 m^2) and in km^2 rounded to 4 decimals (units of 0.0001 km^2)
SquareMeters(height, width) == MulDiv(height, width, Pow6)

\* SquareKm with the division by 100_000 for that by 1_000_000
SquareKmTenfold(height, width) == MulDiv(height, width, Pow9)

SquareKm(height, width) == MulDivTen(height, width, Pow9)

----------------------------------------------------------------------------
(* Bounds of the model                                                      *)

\* largest target_tile_count given to a TileGenerator used on its own
MaxTileCount == 9

\* largest tile_count given to find_places_in_grid
MaxGridTileCount == 3

\* longest insights list given to compute_insights
MaxInsights == 2

\* longest insights list given to find_places_in_grid
MaxGridInsights == 1

\* tool calls the geocoder agent makes in one run of the workflow
MaxToolCalls == 2

\* tiles one run of generate_tiles is followed for
MaxTiles == 70

\* anchors of the angle frame: the equator at Greenwich, and San Francisco
Origins == { [lat |-> 0, lon |-> 0],
             [lat |-> 37774900, lon |-> -122419400] }

\* south-west corners and box extents (angle units) given to
\* generate_tiles: extents are negative, zero, below, at and just above
\* epsilon, a few epsilons, and far above epsilon
SwCorners == { 0, -7 }
Extents == { -5, 0, 6, 10, 11, 24, 45, 1000 }
TargetCounts == -1 .. MaxTileCount

\* centers (an anchor and angle units from it) and box sizes (length units: a
\* negative one, zero, 0.1 mm whose box is below epsilon, 1 mm, 2 mm) given
\* to generate_tiles_from_center and find_places_in_grid
Centers == { [origin |-> [lat |-> 0, lon |-> 0], lat |-> 0, lon |-> 0],
             [origin |-> [lat |-> 37774900, lon |-> -122419400],
              lat |-> 5, lon |-> -3] }
BoxSizes == { -20, 0, 1, 10, 20 }
GridTileCounts == -1 .. MaxGridTileCount

\* anchors within 10 micro-degrees of the north pole: around them a box
\* spans hundreds of degrees of longitude, and longitudes are kept in units
\* of PolarLonUnit angle units (1e-3 degree)
PolarOrigins == { [lat |-> 89999990, lon |-> 0] }
PolarLonUnit == 10^7

\* centers at the edges of the coordinate ranges, given to
\* generate_tiles_from_center: 89.99999 degrees north, and the equator at
\* the antimeridian; and a box of 10 m besides the small ones
EdgeCenters == { [origin |-> [lat |-> 89999990, lon |-> 0],
                  lat |-> 0, lon |-> 0],
                 [origin |-> [lat |-> 0, lon |-> 180000000],
                  lat |-> 0, lon |-> 0] }
CenterBoxSizes == BoxSizes \cup { 10^5 }

\* the north pole itself as anchor and as center: the float cosine of 90
\* degrees is 6.1e-17 and a box of 0.2 mm spans 29 million degrees of
\* longitude, so that longitudes are kept in units of PoleLonUnit angle
\* units (0.1 degree) and only boxes below a millimetre are given (a
\* negative one, zero, 0.2 mm and 0.4 mm)
PoleOrigins == { [lat |-> 90 * Pow6, lon |-> 0] }
PoleLonUnit == 10^9
PoleCenters == { [origin |-> [lat |-> 90 * Pow6, lon |-> 0],
                  lat |-> 0, lon |-> 0] }
PoleBoxSizes == { -2, 0, 2, 4 }

\* the worked example of the package: San Francisco (37.7749, -122.4194),
\* a box of 1000 m, 16 tiles
ExampleCalls == { [origin |-> [lat |-> 37774900, lon |-> -122419400],
                   lat |-> 0, lon |-> 0, box |-> 10^7, count |-> 16] }

\* a grid whose tiles are a few epsilons wide: 65 tiles asked of a box of
\* 1e-7 degree (100 epsilons) a side
DenseCalls == { [origin |-> [lat |-> 0, lon |-> 0],
                 bounds |-> [sw_lat |-> 0, sw_lon |-> 0,
                             ne_lat |-> 1000, ne_lon |-> 1000],
                 count |-> 65] }

\* A target count so large that the tile size falls below half the spacing
\* of the representable angles, which one unit of the model stands for:
\* in doubles, TileGenerator(10**11).generate_tiles((89.0, 179.0,
\* 89.000000002, 179.000000002)), whose tile size 6.3e-15 is lost when
\* added to 179.0
StalledCalls ==
    { [origin |-> [lat |-> 0, lon |-> 0],
       bounds |-> [sw_lat |-> 0, sw_lon |-> 0, ne_lat |-> 11, ne_lon |-> 11],
       count |-> 500] }

----------------------------------------------------------------------------
(* State                                                                    *)

VARIABLES
    entry,              \* the operation the run invokes
    pc,                 \* position of the run in the code
    origin,             \* anchor of the angle frame
    target_tile_count,  \* TileGenerator.target_tile_count
    bounds,             \* generate_tiles: (sw_lat, sw_lon, ne_lat, ne_lon)
    lat_tile_size,      \* generate_tiles locals
    lon_tile_size,
    current_lat,
    current_lon,
    tile_id,
    tiles,
    m_per_deg_lon,      \* generate_tiles_from_center local (0: not assigned)
    center_lat,         \* generate_tiles_from_center / find_places_in_grid
    center_lon,
    box_size_meters,
    insights,           \* the insights list the caller asked for
    custom_area,        \* compute_insights arguments
    circle,
    api_key,            \* whether GOOGLE_MAPS_API_KEY is set
    next_tile,          \* find_places_in_grid: position of the for loop
    search_result,      \* find_places_in_grid: result of the latest call
    results,            \* find_places_in_grid: the list being built
    payloads,           \* the payloads posted to the remote client so far
    address,            \* geocode_address / get_coordinates argument
    http,               \* the latest HTTP exchange with a remote service
    sent,               \* the addresses sent to the Geocoding API so far
    geocoded,           \* get_coordinates: what self.geocode returned
    state,              \* the session state (ctx.session.state)
    tool_calls,         \* number of tool calls the geocoder agent made
    tool_response,      \* what the most recent tool call returned
    ret                 \* what the invoked operation returned or raised

gridVars == << origin, target_tile_count, bounds, lat_tile_size,
               lon_tile_size, current_lat, current_lon, tile_id, tiles,
               m_per_deg_lon >>

argVars == << entry, center_lat, center_lon, box_size_meters, insights,
              custom_area, circle, api_key >>

loopVars == << next_tile, search_result, results, payloads >>

geoVars == << address, http, sent, geocoded, state, tool_calls,
              tool_response >>

vars == << pc, gridVars, argVars, loopVars, geoVars, ret >>

NoReturn == [kind |-> "none"]

\* the latitude, in micro-degrees, of an angle of the frame
AbsLat(lat) == origin.lat + RoundDiv(lat, UnitsPerMicroDeg)

\* the angle units in one unit of the longitudes of the run
LonUnit ==
    IF origin \in PolarOrigins THEN PolarLonUnit
    ELSE IF origin \in PoleOrigins THEN PoleLonUnit
    ELSE 1

\* the run is anchored at the pole itself
AtPole == origin \in PoleOrigins

\* math.cos(math.radians(90.0)) = 6.123233995736766e-17, in units of 1e-19
CosOfRightAngle == 612

\* math.cos(math.radians(90 + d)) for an angle d of a few epsilons (angle
\* units), in units of 1e-19: the cosine of a right angle less d in radians
\* (1.7453293e-12 a unit); it is zero for no d
PoleCos(lat) == CosOfRightAngle - lat * 17453293

\* the cosine of a latitude of the frame, scaled by 1e9, and by 1e19 in a
\* run anchored at the pole
CosAt(lat) == IF AtPole THEN PoleCos(lat) ELSE Cos(AbsLat(lat))

----------------------------------------------------------------------------
(* grid.py: TileGenerator                                                   *)

\* An exception raised inside TileGenerator.  Called on its own the
\* exception reaches the caller; inside find_places_in_grid it is caught by
\* the handler of lines 286-288 of agent_functions.py.
Raise(exc, msg) ==
    IF entry = "find_places_in_grid"
    THEN [kind |-> "return",
          value |-> [success |-> FALSE, error |-> "Exception",
                     reason |-> msg]]
    ELSE [kind |-> "raise", exc |-> exc, reason |-> msg]

\* line 57: 111319.488 * math.cos(math.radians(center_lat)), in length
\* units per degree, and in units of 1e-15 length unit per degree at the
\* pole itself (where it is 6.8e-12 metre per degree)
LonFactor(lat) ==
    IF AtPole THEN MulDiv(m_per_deg_lon_base, PoleCos(lat), 10^4)
    ELSE MulDiv(m_per_deg_lon_base, Cos(AbsLat(lat)), Pow9)

\* lines 57-61: metres per degree of longitude at a latitude, with the
\* substitute of line 61 for a factor that is zero
MetersPerDegLon(lat) ==
    LET cos_lat == LonFactor(lat)
    IN  IF cos_lat = 0 THEN PoleDivisor ELSE cos_lat

\* line 64: (box_size_meters / 2) / m_per_deg_lon in the longitude units of
\* the run
LonHalfDegrees(length, m_per_deg) ==
    IF LonUnit = 1 THEN HalfDegrees(length, m_per_deg)
    ELSE IF AtPole THEN MulDiv(length * 5 * Pow6, Pow9, m_per_deg)
    ELSE MulDiv(length, 5 * (Pow9 \div LonUnit), m_per_deg)

\* line 112: lon_tile_size * m_per_deg_lon_base * cos, in length units
TileWidth(lon_size, cos) ==
    IF LonUnit = 1
    THEN MulDiv(Length(lon_size, m_per_deg_lon_base), cos, Pow9)
    ELSE IF AtPole
    THEN MulDivTen(MulDivTen(lon_size, m_per_deg_lon_base, Pow9), cos, Pow9)
    ELSE MulDiv(lon_size, MulDiv(m_per_deg_lon_base, cos, Pow9),
                10 * (Pow9 \div LonUnit))

\* PositiveCount with >= for >
PositiveCountOrZero(count) == count >= 0

\* line 17: the complement of target_tile_count <= 0
PositiveCount(count) == count > 0

\* CalculateTileSize with the division by tiles_per_side forgotten
CalculateTileSizeUndivided(b, count) ==
    [lat_tile_size |-> b.ne_lat - b.sw_lat,
     lon_tile_size |-> b.ne_lon - b.sw_lon]

\* CalculateTileSize with the whole part of the square root
CalculateTileSizeWholeTiles(b, count) ==
    LET tiles_per_side == (Sqrt(count) \div SqrtScale) * SqrtScale
    IN  [lat_tile_size |-> MulDiv(b.ne_lat - b.sw_lat, SqrtScale,
                                  tiles_per_side),
         lon_tile_size |-> MulDiv(b.ne_lon - b.sw_lon, SqrtScale,
                                  tiles_per_side)]

\* _calculate_tile_size (lines 32-41)
CalculateTileSize(b, count) ==
    LET lat_diff == b.ne_lat - b.sw_lat
        lon_diff == b.ne_lon - b.sw_lon
        tiles_per_side == Sqrt(count)
    IN  [lat_tile_size |-> MulDiv(lat_diff, SqrtScale, tiles_per_side),
         lon_tile_size |-> MulDiv(lon_diff, SqrtScale, tiles_per_side)]

\* Coords with the closing vertex forgotten
CoordsOpen(lat, lon, lat_size, lon_size) ==
    << [latitude |-> lat, longitude |-> lon],
       [latitude |-> lat, longitude |-> lon + lon_size],
       [latitude |-> lat + lat_size, longitude |-> lon + lon_size],
       [latitude |-> lat + lat_size, longitude |-> lon] >>

\* the vertices of the tile polygon (lines 117-123)
Coords(lat, lon, lat_size, lon_size) ==
    << [latitude |-> lat, longitude |-> lon],
       [latitude |-> lat, longitude |-> lon + lon_size],
       [latitude |-> lat + lat_size, longitude |-> lon + lon_size],
       [latitude |-> lat + lat_size, longitude |-> lon],
       [latitude |-> lat, longitude |-> lon] >>

\* the dictionary appended at lines 107-136
Tile(id, lat, lon, lat_size, lon_size) ==
    LET centroid_lat == lat + RoundDiv(lat_size, 2)
        centroid_lon == lon + RoundDiv(lon_size, 2)
        tile_height_m == Length(lat_size, m_per_deg_lat)
        tile_width_m == TileWidth(lon_size, CosAt(centroid_lat))
    IN  [id |-> id,
         centroid |-> [lat |-> centroid_lat, lon |-> centroid_lon],
         polygon |-> [coordinates |-> Coords(lat, lon, lat_size, lon_size)],
         area_sq_meters |-> SquareMeters(tile_height_m, tile_width_m),
         area_sq_km |-> SquareKm(tile_height_m, tile_width_m)]

\* NextTileId with the increment forgotten
NextTileIdStuck(id) == id

\* line 137: tile_id += 1
NextTileId(id) == id + 1

\* lines 138 and 139: current_lon += lon_tile_size, current_lat +=
\* lat_tile_size
Advance(current, size) == current + size

\* lines 104 and 106: the loop guards, current < north_east - epsilon, for
\* coordinates in units of `unit` angle units (they are whole numbers of
\* units, so that the epsilon counts by its whole units)
LoopGuard(current, north_east, unit) ==
    current < north_east - (epsilon \div unit)

\* ValidBounds with the test of the longitudes forgotten
ValidBoundsLatOnly(b) == b.ne_lat > b.sw_lat

\* ValidBounds with >= for >
ValidBoundsNotStrict(b) == b.ne_lat >= b.sw_lat /\ b.ne_lon >= b.sw_lon

\* line 87: ne_lat > sw_lat and ne_lon > sw_lon
ValidBounds(b) == b.ne_lat > b.sw_lat /\ b.ne_lon > b.sw_lon

\* __init__ (lines 17-19)
Construct ==
    /\ pc = "construct"
    /\ IF ~PositiveCount(target_tile_count)
       THEN /\ ret' = Raise("ValueError",
                            "Target tile count must be a positive number.")
            /\ pc' = "done"
       ELSE /\ pc' = IF entry = "generate_tiles" THEN "generate_tiles"
                     ELSE "generate_tiles_from_center"
            /\ UNCHANGED ret
    /\ UNCHANGED << gridVars, argVars, geoVars, loopVars >>

\* generate_tiles_from_center (lines 56-72)
GenerateTilesFromCenter ==
    /\ pc = "generate_tiles_from_center"
    /\ m_per_deg_lon' = MetersPerDegLon(center_lat)
    /\ IF m_per_deg_lon' = 0
       THEN /\ ret' = Raise("ZeroDivisionError", "float division by zero")
            /\ pc' = "done"
            /\ UNCHANGED bounds
       ELSE LET half_box_lat_deg ==
                    HalfDegrees(box_size_meters, m_per_deg_lat)
                half_box_lon_deg ==
                    LonHalfDegrees(box_size_meters, m_per_deg_lon')
            IN  /\ bounds' = [sw_lat |-> center_lat - half_box_lat_deg,
                              sw_lon |-> center_lon - half_box_lon_deg,
                              ne_lat |-> center_lat + half_box_lat_deg,
                              ne_lon |-> center_lon + half_box_lon_deg]
                /\ pc' = "generate_tiles"
                /\ UNCHANGED ret
    /\ UNCHANGED << origin, target_tile_count, lat_tile_size, lon_tile_size,
                    current_lat, current_lon, tile_id, tiles, geoVars,
                    argVars, loopVars >>

\* generate_tiles, lines 86-103: the check of the bounds and the locals
GenerateTiles ==
    /\ pc = "generate_tiles"
    /\ IF ~ValidBounds(bounds)
       THEN /\ ret' = Raise("ValueError",
                            "Invalid bounds: North-East corner must be north and east of South-West corner.")
            /\ pc' = "done"
            /\ UNCHANGED << lat_tile_size, lon_tile_size, current_lat,
                            tile_id, tiles >>
       ELSE LET tile_size == CalculateTileSize(bounds, target_tile_count)
            IN  /\ tiles' = << >>
                /\ tile_id' = 0
                /\ lat_tile_size' = tile_size.lat_tile_size
                /\ lon_tile_size' = tile_size.lon_tile_size
                /\ current_lat' = bounds.sw_lat
                /\ pc' = "lat_loop"
                /\ UNCHANGED ret
    /\ UNCHANGED << origin, target_tile_count, bounds, current_lon,
                    m_per_deg_lon, argVars, geoVars, loopVars >>

\* generate_tiles, lines 104-105 and 141: the test of the outer loop; the
\* list returned goes to the caller, or to the loop of find_places_in_grid
LatLoop ==
    /\ pc = "lat_loop"
    /\ IF LoopGuard(current_lat, bounds.ne_lat, 1)
       THEN /\ current_lon' = bounds.sw_lon
            /\ pc' = "lon_loop"
            /\ UNCHANGED ret
       ELSE /\ UNCHANGED current_lon
            /\ IF entry = "find_places_in_grid"
               THEN pc' = "for_tile" /\ UNCHANGED ret
               ELSE pc' = "done" /\ ret' = [kind |-> "return", value |-> tiles]
    /\ UNCHANGED << origin, target_tile_count, bounds, lat_tile_size,
                    lon_tile_size, current_lat, tile_id, tiles,
                    m_per_deg_lon, argVars, geoVars, loopVars >>

\* generate_tiles, lines 106-139: one pass of the inner loop, or its exit;
\* a run is followed for MaxTiles tiles
LonLoop ==
    /\ pc = "lon_loop"
    /\ IF LoopGuard(current_lon, bounds.ne_lon, LonUnit)
       THEN /\ Len(tiles) < MaxTiles
            /\ tiles' = Append(tiles, Tile(tile_id, current_lat, current_lon,
                                           lat_tile_size, lon_tile_size))
            /\ tile_id' = NextTileId(tile_id)
            /\ current_lon' = Advance(current_lon, lon_tile_size)
            /\ UNCHANGED << current_lat, pc >>
       ELSE /\ current_lat' = Advance(current_lat, lat_tile_size)
            /\ pc' = "lat_loop"
            /\ UNCHANGED << tiles, tile_id, current_lon >>
    /\ UNCHANGED << origin, target_tile_count, bounds, lat_tile_size,
                    lon_tile_size, m_per_deg_lon, geoVars,
                    argVars, loopVars, ret >>

----------------------------------------------------------------------------
(* Python values                                                            *)

\* a dictionary is a function of its keys; the empty one is << >>
Truthy(dict) == DOMAIN dict # {}

Get(dict, key, default) == IF key \in DOMAIN dict THEN dict[key] ELSE default

\* the values a JSON field can hold here: an integer, a text, None
IntValue(n) == [type |-> "int", num |-> n, text |-> << >>]
StrValue(text) == [type |-> "str", num |-> 0, text |-> text]
NoneValue == [type |-> "NoneType", num |-> 0, text |-> << >>]

Digits == { "0", "1", "2", "3", "4", "5", "6", "7", "8", "9" }

DigitValue(c) ==
    CASE c = "0" -> 0 [] c = "1" -> 1 [] c = "2" -> 2 [] c = "3" -> 3
      [] c = "4" -> 4 [] c = "5" -> 5 [] c = "6" -> 6 [] c = "7" -> 7
      [] c = "8" -> 8 [] c = "9" -> 9

\* str.strip() of the blanks at both ends
RECURSIVE Strip(_)
Strip(text) ==
    IF text = << >> THEN text
    ELSE IF Head(text) = " " THEN Strip(Tail(text))
    ELSE IF text[Len(text)] = " " THEN Strip(SubSeq(text, 1, Len(text) - 1))
    ELSE text

\* the character of a decimal digit
DigitChar(d) ==
    CASE d = 0 -> "0" [] d = 1 -> "1" [] d = 2 -> "2" [] d = 3 -> "3"
      [] d = 4 -> "4" [] d = 5 -> "5" [] d = 6 -> "6" [] d = 7 -> "7"
      [] d = 8 -> "8" [] d = 9 -> "9"

\* str(n): the decimal text of an integer
RECURSIVE Decimal(_)
Decimal(n) ==
    IF n < 0 THEN << "-" >> \o Decimal(-n)
    ELSE IF n < 10 THEN << DigitChar(n) >>
    ELSE Append(Decimal(n \div 10), DigitChar(n % 10))

RECURSIVE DigitsValue(_)
DigitsValue(text) ==
    IF text = << >> THEN 0
    ELSE 10 * DigitsValue(SubSeq(text, 1, Len(text) - 1))
           + DigitValue(text[Len(text)])

\* int(v): an integer is kept; a text is stripped and read as an optional
\* sign and decimal digits, anything else is a ValueError; None is a
\* TypeError
int(v) ==
    IF v.type = "int" THEN [ok |-> TRUE, value |-> v.num, reason |-> ""]
    ELSE IF v.type = "str"
    THEN LET t == Strip(v.text)
             signed == t # << >> /\ Head(t) \in { "+", "-" }
             body == IF signed THEN Tail(t) ELSE t
         IN  IF body # << >> /\ \A i \in 1 .. Len(body) : body[i] \in Digits
             THEN [ok |-> TRUE,
                   value |-> IF signed /\ Head(t) = "-"
                             THEN -DigitsValue(body) ELSE DigitsValue(body),
                   reason |-> ""]
             ELSE [ok |-> FALSE, value |-> 0,
                   reason |-> "invalid literal for int() with base 10"]
    ELSE [ok |-> FALSE, value |-> 0,
          reason |-> "int() argument must be a string, a bytes-like object or a real number, not 'NoneType'"]

----------------------------------------------------------------------------
(* places.py: PlacesAggregateAPI                                            *)

InsightKinds == { "INSIGHT_COUNT", "INSIGHT_PLACES" }

RECURSIVE SeqsUpTo(_, _)
SeqsUpTo(S, n) ==
    IF n = 0 THEN { << >> }
    ELSE LET shorter == SeqsUpTo(S, n - 1)
         IN  shorter \cup { Append(q, x) : q \in shorter, x \in S }

InsightLists == SeqsUpTo(InsightKinds, MaxInsights)

Range(seq) == { seq[i] : i \in DOMAIN seq }

\* custom_area arguments: None, an empty dictionary, {"polygon": ...}
NoArea == [type |-> "NoneType", keys |-> {}]
EmptyArea == [type |-> "dict", keys |-> {}]
PolygonArea == [type |-> "dict", keys |-> { "polygon" }]

\* `if custom_area:` (line 116)
AreaGiven(area) == area.type = "dict" /\ area.keys # {}

\* ForcedInsights without the test of the length
ForcedInsightsIfMissing(requested) ==
    IF "INSIGHT_COUNT" \notin Range(requested)
    THEN << "INSIGHT_COUNT" >>
    ELSE requested

\* lines 114-121: the insights of the payload when a custom area is given
ForcedInsights(requested) ==
    IF "INSIGHT_COUNT" \notin Range(requested) \/ Len(requested) > 1
    THEN << "INSIGHT_COUNT" >>
    ELSE requested

\* compute_insights, lines 112-173: the payload built, or the ValueError of
\* line 128; circle_args is the set of latitude, longitude, radius that are
\* not None
ComputeInsightsPayload(requested, area, circle_args) ==
    IF AreaGiven(area)
    THEN [raised |-> FALSE, insights |-> ForcedInsights(requested),
          location |-> "customArea"]
    ELSE IF circle_args = { "latitude", "longitude", "radius" }
    THEN [raised |-> FALSE, insights |-> requested, location |-> "circle"]
    ELSE [raised |-> TRUE, insights |-> requested, location |-> "none"]

\* the responses of the remote service to a POST: _post_request
\* (lines 60-87) returns (True, body) or (False, error information)
CountValues ==
    { IntValue(3), StrValue(<< "1", "2" >>), StrValue(<< " ", "7" >>),
      StrValue(<< "-", "3" >>), StrValue(<< "a", "b", "c" >>), NoneValue }

ResponseBodies ==
    { << >> } \cup { [placeInsights |-> NoneValue] }
              \cup { [count |-> v] : v \in CountValues }

PostOutcomes ==
    { [success |-> TRUE, result |-> body] : body \in ResponseBodies }
    \cup { [success |-> FALSE,
            result |-> [error |-> "API request failed",
                        reason |-> "503 Server Error",
                        status_code |-> "503"]],
           [success |-> FALSE,
            result |-> [error |-> "Request failed",
                        reason |-> "Connection refused"]] }

----------------------------------------------------------------------------
(* agent_functions.py                                                       *)

\* find_places_nearby_polygon (lines 163-204) for one remote outcome: the
\* dictionary returned and the payloads posted (none when the client
\* cannot be built for want of an API key, line 164 and places.py line 26)
FindPlacesNearbyPolygon(polygon, requested, key, outcome) ==
    IF ~key
    THEN [search_result |->
              [success |-> FALSE, error |-> "Exception",
               reason |-> "Google API key must be provided"],
          sent |-> << >>]
    ELSE LET forced_insights == << "INSIGHT_COUNT" >>
             payload == ComputeInsightsPayload(forced_insights, PolygonArea,
                                               {})
             posted == [insights |-> payload.insights,
                        location |-> payload.location]
         IN  IF outcome.success
             THEN [search_result |->
                       [success |-> TRUE, response |-> outcome.result],
                   sent |-> << posted >>]
             ELSE [search_result |->
                       [success |-> FALSE,
                        error |-> Get(outcome.result, "error",
                                      "Unknown error"),
                        reason |-> Get(outcome.result, "reason",
                                       "API request failed")],
                   sent |-> << posted >>]

\* CountOf without the conversion of a text
CountOfUnconverted(found) ==
    LET success == Get(found, "success", FALSE)
        response == Get(found, "response", << >>)
    IN  IF success /\ Truthy(response)
        THEN [ok |-> int(Get(response, "count", IntValue(0))).ok,
              value |-> Get(response, "count", IntValue(0)).num,
              reason |-> int(Get(response, "count", IntValue(0))).reason]
        ELSE [ok |-> TRUE, value |-> 0, reason |-> ""]

\* find_places_in_grid, lines 268-272: the count of a tile, or the
\* exception of the conversion
CountOf(found) ==
    LET success == Get(found, "success", FALSE)
        response == Get(found, "response", << >>)
    IN  IF success /\ Truthy(response)
        THEN int(Get(response, "count", IntValue(0)))
        ELSE [ok |-> TRUE, value |-> 0, reason |-> ""]

\* find_places_in_grid, lines 274-281
SimplifiedResult(tile, found, count) ==
    [tile_id |-> tile.id,
     lat |-> tile.centroid.lat,
     lon |-> tile.centroid.lon,
     tile_area_sq_km |-> tile.area_sq_km,
     success |-> Get(found, "success", FALSE),
     count |-> count]

\* find_places_in_grid, lines 252-288: one pass of the loop over the tiles
\* (the remote call and the simplification of its result), the return of
\* line 284 after the last tile, or the handler of lines 286-288 when the
\* pass raises
ForTile ==
    /\ pc = "for_tile"
    /\ IF next_tile > Len(tiles)
       THEN /\ ret' = [kind |-> "return",
                       value |-> [success |-> TRUE,
                                  grid_results |-> results]]
            /\ pc' = "done"
            /\ UNCHANGED loopVars
       ELSE \E outcome \in PostOutcomes :
              LET tile == tiles[next_tile]
                  call == FindPlacesNearbyPolygon(
                              [coordinates |-> tile.polygon.coordinates],
                              insights, api_key, outcome)
                  count == CountOf(call.search_result)
              IN  /\ payloads' = payloads \o call.sent
                  /\ search_result' = call.search_result
                  /\ IF count.ok
                     THEN /\ results' =
                                Append(results,
                                       SimplifiedResult(tile,
                                                        call.search_result,
                                                        count.value))
                          /\ next_tile' = next_tile + 1
                          /\ UNCHANGED << pc, ret >>
                     ELSE /\ ret' = [kind |-> "return",
                                     value |-> [success |-> FALSE,
                                                error |-> "Exception",
                                                reason |-> count.reason]]
                          /\ pc' = "done"
                          /\ UNCHANGED << next_tile, results >>
    /\ UNCHANGED << gridVars, argVars, geoVars >>

\* PlacesAggregateAPI.compute_insights called directly (places.py lines
\* 112-176): the ValueError of line 128, or the payload posted and the
\* pair returned by _post_request
ComputeInsights ==
    /\ pc = "compute_insights"
    /\ LET payload == ComputeInsightsPayload(insights, custom_area, circle)
       IN  IF payload.raised
           THEN /\ ret' = [kind |-> "raise", exc |-> "ValueError",
                           reason |-> "Either a circular area or a custom_area must be provided"]
                /\ UNCHANGED payloads
           ELSE \E outcome \in PostOutcomes :
                  /\ payloads' = Append(payloads,
                                        [insights |-> payload.insights,
                                         location |-> payload.location])
                  /\ ret' = [kind |-> "return", value |-> outcome]
    /\ pc' = "done"
    /\ UNCHANGED << gridVars, geoVars,
                    argVars, next_tile, search_result, results >>

----------------------------------------------------------------------------
(* HTTP exchanges of a requests.Session                                     *)

\* the text of a response read as JSON: an object, an array, or text that
\* is not JSON
Dict(value) == [type |-> "dict", value |-> value]
List(value) == [type |-> "list", value |-> value]
NotJson == [type |-> "invalid", value |-> << >>]

\* what one request comes to: a response with its status code and body, or
\* an exception of the transport
Response(status_code, body) ==
    [kind |-> "response", status_code |-> status_code, body |-> body,
     exc |-> ""]
TransportError(exc) ==
    [kind |-> "exception", status_code |-> 0, body |-> NotJson, exc |-> exc]
NoExchange ==
    [kind |-> "none", status_code |-> 0, body |-> NotJson, exc |-> ""]

\* str(e) of the HTTPError of raise_for_status
HttpErrorText(status_code) ==
    IF status_code < 500 THEN "Client Error" ELSE "Server Error"

----------------------------------------------------------------------------
(* places.py: PlacesAggregateAPI._post_request                              *)

\* bodies of the error responses of the remote service
ErrorBodies ==
    { NotJson, List(<< >>),
      Dict([error |-> [message |-> StrValue("API key not valid")]]),
      Dict([error |-> [message |-> NoneValue]]),
      Dict([error |-> StrValue("quota exceeded")]),
      Dict(<< >>) }

PostExchanges ==
    { Response(200, body) :
          body \in { Dict([count |-> StrValue(<< "5" >>)]), Dict(<< >>),
                     List(<< >>), NotJson } }
    \cup { Response(code, body) : code \in { 400, 503 },
                                  body \in ErrorBodies }
    \cup { TransportError("Connection refused") }

\* _post_request, lines 60-87: the pair (success, result) returned for one
\* exchange.  Texts and numbers of the result are Python values
\* (StrValue, IntValue, NoneValue).
PostRequestResult(exchange) ==
    IF exchange.kind = "exception"
    THEN [success |-> FALSE,
          result |-> [error |-> StrValue("Request failed"),
                      reason |-> StrValue(exchange.exc)]]
    ELSE IF exchange.status_code >= 400
    THEN LET error_json == exchange.body
             has_message == /\ error_json.type = "dict"
                            /\ "error" \in DOMAIN error_json.value
                            /\ "message" \in DOMAIN error_json.value.error
         IN  [success |-> FALSE,
              result |->
                  [error |-> StrValue("API request failed"),
                   reason |-> IF has_message
                              THEN error_json.value.error.message
                              ELSE StrValue(HttpErrorText(
                                                exchange.status_code)),
                   status_code |-> IntValue(exchange.status_code)]]
    ELSE IF exchange.body.type = "invalid"
    THEN [success |-> FALSE,
          result |-> [error |-> StrValue("Request failed"),
                      reason |-> StrValue("Expecting value")]]
    ELSE [success |-> TRUE, result |-> exchange.body]

\* PlacesAggregateAPI._post_request called on its own
PostRequest ==
    /\ pc = "_post_request"
    /\ \E exchange \in PostExchanges :
           /\ http' = exchange
           /\ ret' = [kind |-> "return",
                      value |-> PostRequestResult(exchange)]
    /\ pc' = "done"
    /\ UNCHANGED << gridVars, argVars, loopVars, address, sent, geocoded,
                    state, tool_calls, tool_response >>

----------------------------------------------------------------------------
(* geocoding.py: GeocodingAPI                                               *)

\* a location of the Geocoding API, in micro-degrees
RomeLocation == [lat |-> 41902783, lng |-> 12496366]

\* results[0] of a Geocoding API answer, and two malformed ones
RomeResult ==
    [geometry |-> [location |-> RomeLocation],
     formatted_address |-> "Rome, Italy"]
MalformedResults ==
    { [formatted_address |-> "Rome, Italy"],
      [geometry |-> [location |-> RomeLocation]] }

GeocodeBodies ==
    { Dict([status |-> "OK", results |-> << RomeResult >>]),
      Dict([status |-> "OK", results |-> << >>]),
      Dict([status |-> "ZERO_RESULTS", results |-> << >>]),
      Dict([status |-> "REQUEST_DENIED",
            error_message |-> "The provided API key is invalid."]),
      Dict([results |-> << >>]),
      List(<< >>) }
    \cup { Dict([status |-> "OK", results |-> << r >>]) :
               r \in MalformedResults }

\* whether the JSONDecodeError of response.json() is a RequestException
\* depends on the version of requests that is installed; the exchange
\* carries the class in its field exc
JsonErrorClasses == { "RequestException", "ValueError" }

GeocodeExchanges ==
    { Response(200, body) : body \in GeocodeBodies }
    \cup { [Response(200, NotJson) EXCEPT !.exc = class] :
               class \in JsonErrorClasses }
    \cup { Response(500, NotJson), TransportError("Connection refused") }

\* f"API returned status: {data.get('status', 'Unknown')}" (line 70)
StatusReason(status) ==
    CASE status = "OK" -> "API returned status: OK"
      [] status = "ZERO_RESULTS" -> "API returned status: ZERO_RESULTS"
      [] status = "REQUEST_DENIED" -> "API returned status: REQUEST_DENIED"
      [] OTHER -> "API returned status: Unknown"

RaisedBy(exc, reason) ==
    [raised |-> TRUE, exc |-> exc, reason |-> reason, success |-> FALSE,
     result |-> << >>]
Returned(success, result) ==
    [raised |-> FALSE, exc |-> "", reason |-> "", success |-> success,
     result |-> result]

\* GeocodingAPI.geocode, lines 50-74, for one exchange: the pair returned,
\* or the exception that the handler of line 72 does not catch
GeocodeResult(exchange) ==
    IF exchange.kind = "exception"
    THEN Returned(FALSE, [error |-> "Request failed",
                          reason |-> exchange.exc])
    ELSE IF exchange.status_code >= 400
    THEN Returned(FALSE, [error |-> "Request failed",
                          reason |-> HttpErrorText(exchange.status_code)])
    ELSE IF exchange.body.type = "invalid"
    THEN IF exchange.exc = "RequestException"
         THEN Returned(FALSE, [error |-> "Request failed",
                               reason |-> "Expecting value"])
         ELSE RaisedBy("JSONDecodeError", "Expecting value")
    ELSE IF exchange.body.type # "dict"
    THEN RaisedBy("AttributeError", "'list' object has no attribute 'get'")
    ELSE LET data == exchange.body.value
             status == Get(data, "status", "None")
             found == Get(data, "results", << >>)
         IN  IF status = "OK" /\ found # << >>
             THEN IF "geometry" \notin DOMAIN found[1]
                  THEN RaisedBy("KeyError", "'geometry'")
                  ELSE IF "formatted_address" \notin DOMAIN found[1]
                  THEN RaisedBy("KeyError", "'formatted_address'")
                  ELSE Returned(TRUE,
                           [latitude |-> found[1].geometry.location.lat,
                            longitude |-> found[1].geometry.location.lng,
                            formatted_address |->
                                found[1].formatted_address])
             ELSE Returned(FALSE,
                      [error |-> IF status = "ZERO_RESULTS"
                                 THEN "No results found"
                                 ELSE "Geocoding API error",
                       reason |-> Get(data, "error_message",
                                      StatusReason(status))])

\* GeocodingAPI.get_coordinates, lines 90-109, for what self.geocode gave:
\* an exception of geocode passes through
GetCoordinatesResult(found) ==
    IF found.raised \/ ~found.success THEN found
    ELSE IF \/ "results" \notin DOMAIN found.result
            \/ found.result.results = << >>
            \/ "geometry" \notin DOMAIN found.result.results[1]
            \/ "location" \notin DOMAIN found.result.results[1].geometry
    THEN Returned(FALSE,
             [error |-> "Invalid response format",
              reason |-> "Could not extract location from geocoding response"])
    ELSE LET location == found.result.results[1].geometry.location
         IN  Returned(TRUE,
                 [latitude |-> location.lat,
                  longitude |-> location.lng,
                  formatted_address |->
                      Get(found.result.results[1], "formatted_address",
                          "None")])

\* GeocodingAPI(api_key).get_coordinates(address)
GetCoordinates ==
    /\ pc = "get_coordinates"
    /\ \E exchange \in GeocodeExchanges :
         LET found == GeocodeResult(exchange)
             out == GetCoordinatesResult(found)
         IN  /\ http' = exchange
             /\ sent' = Append(sent, address)
             /\ geocoded' = found
             /\ ret' = IF out.raised
                       THEN [kind |-> "raise", exc |-> out.exc,
                             reason |-> out.reason]
                       ELSE [kind |-> "return",
                             value |-> [success |-> out.success,
                                        result |-> out.result]]
    /\ pc' = "done"
    /\ UNCHANGED << gridVars, argVars, loopVars, address, state,
                    tool_calls, tool_response >>

----------------------------------------------------------------------------
(* agent_functions.py: geocode_address                                      *)

\* the address arguments: None, a number, empty and blank texts, a place
\* name without and with surrounding blanks
Addresses ==
    { NoneValue, IntValue(5), StrValue(<< >>), StrValue(<< " ", " " >>),
      StrValue(<< "R", "o", "m", "e" >>),
      StrValue(<< " ", "R", "o", "m", "e", " " >>) }

\* str(address) of line 80
str(v) ==
    IF v.type = "str" THEN v
    ELSE IF v.type = "int" THEN StrValue(Decimal(v.num))
    ELSE StrValue(<< "N", "o", "n", "e" >>)

\* lines 76-83: the dictionary of the handler of geocode_address
ExceptionDict(addr, reason) ==
    [success |-> FALSE, query |-> str(addr), error |-> "Exception",
     reason |-> reason]

\* GeocodeAddressResult sending the request before the address is looked at
GeocodeAddressUnchecked(addr, key, exchange) ==
    LET found == GeocodeResult(exchange)
    IN  [value |-> IF found.raised
                   THEN ExceptionDict(addr, found.reason)
                   ELSE IF found.success
                   THEN [success |-> TRUE, query |-> addr,
                         result |-> found.result]
                   ELSE [success |-> FALSE, query |-> addr,
                         error |-> Get(found.result, "error",
                                       "Unknown error"),
                         reason |-> Get(found.result, "reason",
                                        "Geocoding failed")],
         sent |-> << addr >>,
         exchange |-> exchange]

\* geocode_address, lines 42-83, for one exchange of the Geocoding API: the
\* dictionary returned, the addresses sent and the exchange that took place
\* (none when the client cannot be built, geocoding.py line 26, or the
\* address is turned down, line 50)
GeocodeAddressResult(addr, key, exchange) ==
    IF ~key
    THEN [value |-> ExceptionDict(addr,
                        "A Google API key must be provided or set as the GOOGLE_MAPS_API_KEY environment variable."),
          sent |-> << >>, exchange |-> NoExchange]
    ELSE LET clean_address == IF addr.type = "str"
                              THEN StrValue(Strip(addr.text))
                              ELSE StrValue(<< >>)
         IN  IF clean_address.text = << >>
             THEN [value |-> [success |-> FALSE, query |-> addr,
                              error |-> "Invalid input",
                              reason |->
                                  "Address must be a non-empty string"],
                   sent |-> << >>, exchange |-> NoExchange]
             ELSE LET found == GeocodeResult(exchange)
                  IN  [value |->
                           IF found.raised
                           THEN ExceptionDict(addr, found.reason)
                           ELSE IF found.success
                           THEN [success |-> TRUE, query |-> clean_address,
                                 result |-> found.result]
                           ELSE [success |-> FALSE,
                                 query |-> clean_address,
                                 error |-> Get(found.result, "error",
                                               "Unknown error"),
                                 reason |-> Get(found.result, "reason",
                                                "Geocoding failed")],
                       sent |-> << clean_address >>,
                       exchange |-> exchange]

\* geocode_address(address) called on its own
GeocodeAddress ==
    /\ pc = "geocode_address"
    /\ \E exchange \in GeocodeExchanges :
         LET call == GeocodeAddressResult(address, api_key, exchange)
         IN  /\ http' = call.exchange
             /\ sent' = sent \o call.sent
             /\ ret' = [kind |-> "return", value |-> call.value]
    /\ pc' = "done"
    /\ UNCHANGED << gridVars, argVars, loopVars, address, geocoded, state,
                    tool_calls, tool_response >>

----------------------------------------------------------------------------
(* callbacks.py and agent.py: the geocoder agent of a session               *)

\* StoreResultsInContext keeping a result that is already stored
StoreFirstResult(session_state, response) ==
    IF "geocode_result" \in DOMAIN session_state THEN session_state
    ELSE [k \in DOMAIN session_state \cup { "geocode_result" } |->
              IF k = "geocode_result" THEN response ELSE session_state[k]]

\* store_results_in_context, line 22:
\* tool_context.state["geocode_result"] = tool_response
StoreResultsInContext(session_state, response) ==
    [k \in DOMAIN session_state \cup { "geocode_result" } |->
         IF k = "geocode_result" THEN response ELSE session_state[k]]

\* agent.py lines 66-74: whether _run_async_impl reaches its last line
\* instead of returning early
WorkflowCompletes(session_state) ==
    /\ "geocode_result" \in DOMAIN session_state
    /\ Truthy(session_state.geocode_result)
    /\ "success" \in DOMAIN session_state.geocode_result
    /\ session_state.geocode_result.success = TRUE

\* One tool call of the geocoder LlmAgent (agent.py lines 77-90) while
\* _run_async_impl iterates over its events (lines 61-63): geocode_address
\* on an address of the model's choosing, then the after_tool_callback
ToolCall ==
    /\ pc = "run_geocoder"
    /\ tool_calls < MaxToolCalls
    /\ \E addr \in Addresses, exchange \in GeocodeExchanges :
         LET call == GeocodeAddressResult(addr, api_key, exchange)
         IN  /\ address' = addr
             /\ http' = call.exchange
             /\ sent' = sent \o call.sent
             /\ tool_response' = call.value
             /\ state' = StoreResultsInContext(state, call.value)
    /\ tool_calls' = tool_calls + 1
    /\ UNCHANGED << pc, gridVars, argVars, loopVars, geocoded, ret >>

\* _run_async_impl after the geocoder agent has finished, lines 66-74
RunAsyncImpl ==
    /\ pc = "run_geocoder"
    /\ ret' = [kind |-> "return",
               value |-> [workflow |-> IF WorkflowCompletes(state)
                                       THEN "completed" ELSE "aborted"]]
    /\ pc' = "done"
    /\ UNCHANGED << gridVars, argVars, loopVars, geoVars >>

----------------------------------------------------------------------------
(* Runs: one operation is invoked on arguments drawn from the bounded sets  *)

NoBounds == [sw_lat |-> 0, sw_lon |-> 0, ne_lat |-> 0, ne_lon |-> 0]

InitLocals ==
    /\ lat_tile_size = 0
    /\ lon_tile_size = 0
    /\ current_lat = 0
    /\ current_lon = 0
    /\ tile_id = 0
    /\ tiles = << >>
    /\ m_per_deg_lon = 0
    /\ next_tile = 1
    /\ search_result = << >>
    /\ results = << >>
    /\ payloads = << >>
    /\ ret = NoReturn

\* no geocoding has taken place and the session state is empty
InitNoGeocoding ==
    /\ address = NoneValue
    /\ http = NoExchange
    /\ sent = << >>
    /\ geocoded = NoReturn
    /\ state = << >>
    /\ tool_calls = 0
    /\ tool_response = << >>

\* no tile generator is involved
InitNoGrid ==
    /\ origin = [lat |-> 0, lon |-> 0]
    /\ target_tile_count = 1
    /\ bounds = NoBounds
    /\ center_lat = 0 /\ center_lon = 0 /\ box_size_meters = 0
    /\ insights = << >> /\ custom_area = NoArea /\ circle = {}
    /\ InitLocals

\* TileGenerator(target_tile_count).generate_tiles(bounds)
InitGenerateTiles ==
    /\ entry = "generate_tiles"
    /\ pc = "construct"
    /\ origin \in Origins
    /\ target_tile_count \in TargetCounts
    /\ \E sw_lat \in SwCorners, sw_lon \in SwCorners,
          lat_diff \in Extents, lon_diff \in Extents :
           bounds = [sw_lat |-> sw_lat, sw_lon |-> sw_lon,
                     ne_lat |-> sw_lat + lat_diff,
                     ne_lon |-> sw_lon + lon_diff]
    /\ center_lat = 0 /\ center_lon = 0 /\ box_size_meters = 0
    /\ insights = << >> /\ custom_area = NoArea /\ circle = {}
    /\ api_key = TRUE
    /\ InitLocals
    /\ InitNoGeocoding

\* TileGenerator(65).generate_tiles((0, 0, 1e-7, 1e-7)) and the like
InitDenseGrid ==
    /\ entry = "generate_tiles"
    /\ pc = "construct"
    /\ \E call \in DenseCalls \cup StalledCalls :
           /\ origin = call.origin
           /\ target_tile_count = call.count
           /\ bounds = call.bounds
    /\ center_lat = 0 /\ center_lon = 0 /\ box_size_meters = 0
    /\ insights = << >> /\ custom_area = NoArea /\ circle = {}
    /\ api_key = TRUE
    /\ InitLocals
    /\ InitNoGeocoding

\* TileGenerator(16).generate_tiles_from_center(37.7749, -122.4194, 1000)
InitExample ==
    /\ entry = "generate_tiles_from_center"
    /\ pc = "construct"
    /\ bounds = NoBounds
    /\ \E call \in ExampleCalls :
           /\ origin = call.origin
           /\ center_lat = call.lat
           /\ center_lon = call.lon
           /\ box_size_meters = call.box
           /\ target_tile_count = call.count
    /\ insights = << >> /\ custom_area = NoArea /\ circle = {}
    /\ api_key = TRUE
    /\ InitLocals
    /\ InitNoGeocoding

\* TileGenerator(target_tile_count).generate_tiles_from_center(...)
InitGenerateTilesFromCenter ==
    /\ entry = "generate_tiles_from_center"
    /\ pc = "construct"
    /\ target_tile_count \in TargetCounts
    /\ bounds = NoBounds
    /\ \E center \in Centers \cup EdgeCenters \cup PoleCenters :
           /\ origin = center.origin
           /\ center_lat = center.lat
           /\ center_lon = center.lon
           /\ box_size_meters \in IF center \in PoleCenters
                                   THEN PoleBoxSizes ELSE CenterBoxSizes
    /\ insights = << >> /\ custom_area = NoArea /\ circle = {}
    /\ api_key = TRUE
    /\ InitLocals
    /\ InitNoGeocoding

\* find_places_in_grid(latitude, longitude, box_size_meters, tile_count,
\* insights=...)
InitFindPlacesInGrid ==
    /\ entry = "find_places_in_grid"
    /\ pc = "construct"
    /\ target_tile_count \in GridTileCounts
    /\ bounds = NoBounds
    /\ \E center \in Centers :
           /\ origin = center.origin
           /\ center_lat = center.lat
           /\ center_lon = center.lon
    /\ box_size_meters \in BoxSizes
    /\ insights \in SeqsUpTo(InsightKinds, MaxGridInsights)
    /\ custom_area = NoArea /\ circle = {}
    /\ api_key \in BOOLEAN
    /\ InitLocals
    /\ InitNoGeocoding

\* PlacesAggregateAPI().compute_insights(insights, custom_area=...,
\* latitude=..., longitude=..., radius=...)
InitComputeInsights ==
    /\ entry = "compute_insights"
    /\ pc = "compute_insights"
    /\ origin = [lat |-> 0, lon |-> 0]
    /\ target_tile_count = 1
    /\ bounds = NoBounds
    /\ center_lat = 0 /\ center_lon = 0 /\ box_size_meters = 0
    /\ insights \in InsightLists
    /\ custom_area \in { NoArea, EmptyArea, PolygonArea }
    /\ circle \in { {}, { "latitude", "longitude" },
                    { "latitude", "longitude", "radius" } }
    /\ api_key = TRUE
    /\ InitLocals
    /\ InitNoGeocoding

\* PlacesAggregateAPI()._post_request(endpoint, payload)
InitPostRequest ==
    /\ entry = "_post_request"
    /\ pc = "_post_request"
    /\ api_key = TRUE
    /\ InitNoGrid
    /\ InitNoGeocoding

\* GeocodingAPI().get_coordinates(address)
InitGetCoordinates ==
    /\ entry = "get_coordinates"
    /\ pc = "get_coordinates"
    /\ api_key = TRUE
    /\ InitNoGrid
    /\ address \in { a \in Addresses : a.type = "str" }
    /\ http = NoExchange
    /\ sent = << >>
    /\ geocoded = NoReturn
    /\ state = << >>
    /\ tool_calls = 0
    /\ tool_response = << >>

\* geocode_address(address)
InitGeocodeAddress ==
    /\ entry = "geocode_address"
    /\ pc = "geocode_address"
    /\ api_key \in BOOLEAN
    /\ InitNoGrid
    /\ address \in Addresses
    /\ http = NoExchange
    /\ sent = << >>
    /\ geocoded = NoReturn
    /\ state = << >>
    /\ tool_calls = 0
    /\ tool_response = << >>

\* what an earlier turn of the session may have left in the state
SessionStates ==
    { << >> }
    \cup { [geocode_result |->
                GeocodeAddressResult(StrValue(<< "R", "o", "m", "e" >>),
                                     TRUE, Response(200, body)).value] :
               body \in { Dict([status |-> "OK",
                                results |-> << RomeResult >>]),
                          Dict([status |-> "ZERO_RESULTS",
                                results |-> << >>]) } }

\* GeoCoderAgent._run_async_impl(ctx) on a session
InitGeoCoderAgent ==
    /\ entry = "GeoCoderAgent"
    /\ pc = "run_geocoder"
    /\ api_key \in BOOLEAN
    /\ InitNoGrid
    /\ address = NoneValue
    /\ http = NoExchange
    /\ sent = << >>
    /\ geocoded = NoReturn
    /\ state \in SessionStates
    /\ tool_calls = 0
    /\ tool_response = << >>

Init ==
    \/ InitGenerateTiles
    \/ InitDenseGrid
    \/ InitGenerateTilesFromCenter
    \/ InitExample
    \/ InitFindPlacesInGrid
    \/ InitComputeInsights
    \/ InitPostRequest
    \/ InitGetCoordinates
    \/ InitGeocodeAddress
    \/ InitGeoCoderAgent

Next ==
    \/ Construct
    \/ GenerateTilesFromCenter
    \/ GenerateTiles
    \/ LatLoop
    \/ LonLoop
    \/ ForTile
    \/ ComputeInsights
    \/ PostRequest
    \/ GetCoordinates
    \/ GeocodeAddress
    \/ ToolCall
    \/ RunAsyncImpl

Spec == Init /\ [][Next]_vars

----------------------------------------------------------------------------
(* Properties                                                               *)

GridRun == entry = "find_places_in_grid"

GeneratorRun == entry \in { "generate_tiles", "generate_tiles_from_center" }

\* a generator called on its own has returned its list
TilesReturned == GeneratorRun /\ pc = "done" /\ ret.kind = "return"

\* find_places_in_grid has returned
GridReturned == GridRun /\ pc = "done" /\ ret.kind = "return"

\* the vertices of tile i of a list
Vertices(list, i) == list[i].polygon.coordinates

\* C1: for a positive box size and tile count, whatever the remote calls
\* answer, find_places_in_grid returns one entry per generated tile, in
\* tile id order, an entry of a failed call having success = FALSE and
\* count = 0 and the entry of the latest call carrying that call's flag.
C1_OneEntryPerTile ==
    (GridRun /\ pc = "done" /\ target_tile_count > 0 /\ box_size_meters > 0)
    => /\ ret.kind = "return"
       /\ "grid_results" \in DOMAIN ret.value
       /\ Len(ret.value.grid_results) = Len(tiles)
       /\ \A i \in 1 .. Len(tiles) :
            /\ ret.value.grid_results[i].tile_id = tiles[i].id
            /\ ret.value.grid_results[i].tile_id = i - 1
            /\ ~ret.value.grid_results[i].success
                 => ret.value.grid_results[i].count = 0
       /\ Truthy(search_result)
            => ret.value.grid_results[Len(tiles)].success
                 = search_result.success

\* C2: a failure of the processing of one tile that is no failure of the
\* remote call (a count that cannot be converted) becomes an entry with
\* success = FALSE for that tile, and the aggregation goes on to return
\* its grid_results.
C2_TileFailureIsolated ==
    (GridRun /\ Truthy(search_result) /\ ~CountOf(search_result).ok)
    => /\ Len(results) = next_tile - 1
       /\ results # << >>
       /\ ~results[Len(results)].success
       /\ pc = "done" => "grid_results" \in DOMAIN ret.value

\* the integer a count field stands for: itself, or the integer whose
\* decimal text is the field without its blanks
IntegerValue(field) ==
    IF field.type = "int" THEN field.num
    ELSE CHOOSE n \in -99 .. 99 : Decimal(n) = Strip(field.text)

\* C3: the entry of a tile whose remote call succeeded has the integer
\* value of the count field of the response, given as text or as an
\* integer, and 0 when the response has no count field or is empty.
C3_CountIsIntegerValue ==
    (GridRun /\ Truthy(search_result) /\ search_result.success
       /\ CountOf(search_result).ok)
    => /\ Len(results) = next_tile - 1
       /\ results # << >>
       /\ results[Len(results)].success
       /\ results[Len(results)].count =
            IF "count" \in DOMAIN search_result.response
            THEN IntegerValue(search_result.response.count)
            ELSE 0

C3_Witness ==
    /\ GridRun
    /\ Len(results) >= 2
    /\ Truthy(search_result)
    /\ search_result.success
    /\ "count" \in DOMAIN search_result.response
    /\ search_result.response.count.type = "str"
    /\ results[Len(results)].count = 12
    /\ results[1].count = 3

\* C4: every payload posted with a custom area (a polygon) has insights
\* exactly <<"INSIGHT_COUNT">>, whatever insights list was requested, from
\* compute_insights called directly and from find_places_in_grid.
C4_PolygonForcesCount ==
    \A i \in DOMAIN payloads :
        payloads[i].location = "customArea"
        => payloads[i].insights = << "INSIGHT_COUNT" >>

C4_Witness ==
    /\ entry = "compute_insights"
    /\ AreaGiven(custom_area)
    /\ insights = << "INSIGHT_COUNT", "INSIGHT_PLACES" >>
    /\ Len(payloads) = 1
    /\ payloads[1].location = "customArea"

\* C5: with a non-positive tile count or box size find_places_in_grid
\* fails in the construction of the generator or in the check of the
\* bounds: no tile is generated, no payload is posted, the arguments are
\* those given, and the run returns the failure dictionary.
C5_BadArgumentsAbortBeforeCalls ==
    (GridRun /\ (target_tile_count <= 0 \/ box_size_meters <= 0))
    => /\ pc \in { "construct", "generate_tiles_from_center",
                   "generate_tiles", "done" }
       /\ target_tile_count <= 0 => pc \in { "construct", "done" }
       /\ tiles = << >>
       /\ results = << >>
       /\ payloads = << >>
       /\ pc = "done"
            => /\ ret.kind = "return"
               /\ ~ret.value.success
               /\ ret.value.error = "Exception"
               /\ "grid_results" \notin DOMAIN ret.value

C5_Witness ==
    /\ GridRun
    /\ pc = "done"
    /\ target_tile_count > 0
    /\ box_size_meters = 0
    /\ ~ret.value.success
    /\ payloads = << >>

\* C6: for every box with ne_lat > sw_lat and ne_lon > sw_lon and every
\* positive target tile count, generate_tiles returns at least one tile.
C6_AtLeastOneTile ==
    (entry = "generate_tiles" /\ pc = "done" /\ target_tile_count > 0
       /\ ValidBounds(bounds))
    => /\ ret.kind = "return"
       /\ Len(ret.value) >= 1

\* C7: for a valid box and a target tile count k*k, generate_tiles returns
\* exactly k*k tiles.
C7_SquareCountExact ==
    (entry = "generate_tiles" /\ pc = "done" /\ ret.kind = "return"
       /\ \E k \in 1 .. target_tile_count : k * k = target_tile_count)
    => Len(ret.value) = target_tile_count

\* C8: the tiles of a generated grid cover the box without gaps: the first
\* tile starts at the south-west corner, a tile's east edge is the west
\* edge of the next tile of its row, a row's north edge is the south edge
\* of the next row, and the last tile reaches the north-east corner.
C8_NoGaps ==
    (entry = "generate_tiles" /\ pc = "done" /\ ret.kind = "return")
    => LET list == ret.value
           n == Len(list)
       IN  /\ n >= 1
           /\ Vertices(list, 1)[1] = [latitude |-> bounds.sw_lat,
                                      longitude |-> bounds.sw_lon]
           /\ \A i \in 1 .. n - 1 :
                IF Vertices(list, i)[1].latitude
                     = Vertices(list, i + 1)[1].latitude
                THEN Vertices(list, i)[2].longitude
                       = Vertices(list, i + 1)[1].longitude
                ELSE Vertices(list, i)[3].latitude
                       = Vertices(list, i + 1)[1].latitude
           /\ Vertices(list, n)[3].latitude >= bounds.ne_lat
           /\ Vertices(list, n)[3].longitude >= bounds.ne_lon

\* C9: the tile at position i of the list (counting from 0) has id i: the
\* ids start at 0 and increase by 1 in emission order, and the last id of
\* a returned list is its length minus 1.
C9_SequentialIds ==
    /\ \A i \in 1 .. Len(tiles) : tiles[i].id = i - 1
    /\ TilesReturned
         => /\ \A i \in 1 .. Len(ret.value) : ret.value[i].id = i - 1
            /\ ret.value # << >>
                 => ret.value[Len(ret.value)].id = Len(ret.value) - 1

C9_Witness ==
    /\ TilesReturned
    /\ Len(ret.value) = 9
    /\ ret.value[9].id = 8

\* C10: the polygon of every tile is the 5 points lower-left, lower-right,
\* upper-right, upper-left, lower-left of an axis-aligned rectangle of
\* lat_tile_size by lon_tile_size, so that its first point is its last.
C10_ClosedRectangle ==
    \A i \in 1 .. Len(tiles) :
        LET c == Vertices(tiles, i)
        IN  /\ Len(c) = 5
            /\ c[1] = c[5]
            /\ c[2] = [latitude |-> c[1].latitude,
                       longitude |-> c[1].longitude + lon_tile_size]
            /\ c[3] = [latitude |-> c[1].latitude + lat_tile_size,
                       longitude |-> c[1].longitude + lon_tile_size]
            /\ c[4] = [latitude |-> c[1].latitude + lat_tile_size,
                       longitude |-> c[1].longitude]

C10_Witness ==
    /\ TilesReturned
    /\ Len(tiles) >= 4
    /\ lat_tile_size > 0
    /\ lon_tile_size > lat_tile_size
    /\ Vertices(tiles, 4)[1] = Vertices(tiles, 4)[5]

\* C11: tiles are emitted row by row from the south-west corner: of two
\* tiles the earlier one has the smaller centroid latitude, or the same
\* centroid latitude and the smaller centroid longitude.
C11_RowMajorOrder ==
    \A i, j \in 1 .. Len(tiles) :
        i < j =>
          \/ tiles[i].centroid.lat < tiles[j].centroid.lat
          \/ /\ tiles[i].centroid.lat = tiles[j].centroid.lat
             /\ tiles[i].centroid.lon < tiles[j].centroid.lon

\* C12: generate_tiles on a box with ne_lat <= sw_lat or ne_lon <= sw_lon
\* leaves the box as it was given, emits no tile, and goes from the check
\* of the bounds to raising ValueError.
C12_InvalidBoundsRaise ==
    [][(/\ entry = "generate_tiles"
        /\ target_tile_count > 0
        /\ \/ bounds.ne_lat <= bounds.sw_lat
           \/ bounds.ne_lon <= bounds.sw_lon)
       => /\ bounds' = bounds
          /\ tiles' = << >>
          /\ pc' \in { "generate_tiles", "done" }
          /\ pc' = "done"
               => /\ ret'.kind = "raise"
                  /\ ret'.exc = "ValueError"
                  /\ ret'.reason = "Invalid bounds: North-East corner must be north and east of South-West corner."]_vars

C12_Witness ==
    /\ entry = "generate_tiles"
    /\ target_tile_count > 0
    /\ bounds.ne_lat > bounds.sw_lat
    /\ bounds.ne_lon < bounds.sw_lon
    /\ pc = "done"
    /\ ret.kind = "raise"
    /\ tiles = << >>

\* C13: with target_tile_count <= 0 the construction of the TileGenerator
\* raises ValueError (which find_places_in_grid turns into its failure
\* dictionary): the run never reaches generate_tiles and no tile exists.
C13_NonPositiveCountRaises ==
    ((GeneratorRun \/ GridRun) /\ target_tile_count <= 0)
    => /\ pc \in { "construct", "done" }
       /\ tiles = << >>
       /\ pc = "done"
            => IF GridRun
               THEN /\ ret.kind = "return"
                    /\ ~ret.value.success
                    /\ ret.value.reason
                         = "Target tile count must be a positive number."
               ELSE /\ ret.kind = "raise"
                    /\ ret.exc = "ValueError"
                    /\ ret.reason
                         = "Target tile count must be a positive number."

C13_Witness ==
    /\ GeneratorRun
    /\ target_tile_count = 0
    /\ pc = "done"
    /\ ret.kind = "raise"
    /\ tiles = << >>

\* C14: generate_tiles_from_center with box_size_meters <= 0 raises
\* ValueError, in the constructor or in the check of the bounds, at every
\* center, and no tile is emitted.
C14_NonPositiveBoxRaises ==
    (entry = "generate_tiles_from_center" /\ box_size_meters <= 0)
    => /\ pc \in { "construct", "generate_tiles_from_center",
                   "generate_tiles", "done" }
       /\ tiles = << >>
       /\ pc = "done"
            => /\ ret.kind = "raise"
               /\ ret.exc = "ValueError"

C14_Witness ==
    /\ entry = "generate_tiles_from_center"
    /\ origin \in PolarOrigins
    /\ box_size_meters < 0
    /\ target_tile_count > 0
    /\ pc = "done"
    /\ ret.kind = "raise"
    /\ ret.reason = "Invalid bounds: North-East corner must be north and east of South-West corner."

\* generate_tiles_from_center has built its box (lines 56-70)
BoxBuilt ==
    /\ entry \in { "generate_tiles_from_center", "find_places_in_grid" }
    /\ target_tile_count > 0
    /\ pc \notin { "construct", "generate_tiles_from_center" }

\* an offset of longitude, in the longitude units of the run, converted to
\* a length by a metres-per-degree factor
LonLength(angle, m_per_deg) ==
    IF LonUnit = 1 THEN Length(angle, m_per_deg)
    ELSE IF AtPole THEN RoundDiv(MulDiv(angle, m_per_deg, Pow9), 10^7)
    ELSE MulDiv(angle, m_per_deg, 10 * (Pow9 \div LonUnit))

\* C15: the box that generate_tiles_from_center hands to generate_tiles is
\* symmetric about the center in latitude and in longitude, and the offset
\* of an edge from the center, converted back to a length by 111132.954
\* (latitude) and by 111319.488 * cos(center_lat) (longitude), is
\* box_size_meters / 2 to the resolution of the lengths (twice the offset
\* is within 0.1 mm of the box size).
C15_SymmetricBox ==
    (BoxBuilt /\ pc = "generate_tiles")
    => LET lat_offset == bounds.ne_lat - center_lat
           lon_offset == bounds.ne_lon - center_lon
           factor == LonFactor(center_lat)
       IN  /\ center_lat - bounds.sw_lat = lat_offset
           /\ center_lon - bounds.sw_lon = lon_offset
           /\ Abs(2 * Length(lat_offset, m_per_deg_lat) - box_size_meters)
                <= 1
           /\ Abs(2 * LonLength(lon_offset, factor)
                    - box_size_meters) <= 1

C15_Witness ==
    /\ BoxBuilt
    /\ pc = "generate_tiles"
    /\ origin.lat = 37774900
    /\ box_size_meters = 10^5
    /\ center_lat # 0
    /\ bounds.ne_lon - center_lon > bounds.ne_lat - center_lat
    /\ bounds.ne_lat - center_lat > 0

\* area_sq_km (units of 0.0001 km^2) in the units of area_sq_meters (0.01
\* m^2): multiplied by 1,000,000
KmInSquareMeters(area_sq_km) == area_sq_km * 10^4

\* C16 as stated: for every tile, area_sq_meters is area_sq_km multiplied
\* by 1,000,000.
C16_AreasEqual ==
    \A i \in 1 .. Len(tiles) :
        tiles[i].area_sq_meters = KmInSquareMeters(tiles[i].area_sq_km)

\* C16 as amended: for every tile, area_sq_meters and area_sq_km
\* multiplied by 1,000,000 differ by at most 50 m^2, half a unit of the
\* fourth decimal of the square kilometres (and the half unit of the second
\* decimal of the square metres, below the unit of this comparison).
C16_AreasAgreeToPrecision ==
    \A i \in 1 .. Len(tiles) :
        Abs(tiles[i].area_sq_meters
              - KmInSquareMeters(tiles[i].area_sq_km)) <= 5000

C16_Witness ==
    /\ TilesReturned
    /\ Len(tiles) = 4
    /\ tiles[1].area_sq_km > 0
    /\ tiles[1].area_sq_meters > 5000
    /\ tiles[1].area_sq_meters < KmInSquareMeters(tiles[1].area_sq_km)
    /\ tiles[4].area_sq_km = 0

\* C17: every tile has area_sq_meters >= 0 and area_sq_km >= 0, also a
\* tile of a box around a center close to a pole.
C17_AreasNonNegative ==
    \A i \in 1 .. Len(tiles) :
        /\ tiles[i].area_sq_meters >= 0
        /\ tiles[i].area_sq_km >= 0

\* a point of the frame lies in latitude [-90, 90] and longitude
\* [-180, 180]: compared in micro-degrees, rounded outwards
InRange(lat, lon) ==
    LET lat_floor == origin.lat + (lat \div UnitsPerMicroDeg)
        lat_ceil == lat_floor
                      + (IF lat % UnitsPerMicroDeg = 0 THEN 0 ELSE 1)
        lon_floor == origin.lon + (lon \div UnitsPerMicroDeg)
        lon_ceil == lon_floor
                      + (IF lon % UnitsPerMicroDeg = 0 THEN 0 ELSE 1)
        micro == LonUnit \div UnitsPerMicroDeg
    IN  /\ lat_floor >= -90 * Pow6
        /\ lat_ceil <= 90 * Pow6
        /\ IF LonUnit = 1
           THEN lon_floor >= -180 * Pow6 /\ lon_ceil <= 180 * Pow6
           ELSE /\ lon >= -((180 * Pow6 + origin.lon) \div micro)
                /\ lon <= (180 * Pow6 - origin.lon) \div micro

\* C18: for a center in range and a positive box size, the corners of the
\* box, the vertices of every tile and the centroid of every tile have
\* latitude in [-90, 90] and longitude in [-180, 180].
C18_PointsInRange ==
    (BoxBuilt /\ box_size_meters > 0 /\ InRange(center_lat, center_lon))
    => /\ InRange(bounds.sw_lat, bounds.sw_lon)
       /\ InRange(bounds.ne_lat, bounds.ne_lon)
       /\ \A i \in 1 .. Len(tiles) :
            /\ InRange(tiles[i].centroid.lat, tiles[i].centroid.lon)
            /\ \A k \in 1 .. Len(Vertices(tiles, i)) :
                 InRange(Vertices(tiles, i)[k].latitude,
                         Vertices(tiles, i)[k].longitude)

\* C19: no vertex of a tile generated by generate_tiles_from_center lies
\* outside the box built around the center, for every positive target
\* tile count.
C19_TilesWithinBox ==
    (BoxBuilt /\ entry = "generate_tiles_from_center")
    => \A i \in 1 .. Len(tiles) :
         \A k \in 1 .. Len(Vertices(tiles, i)) :
             /\ Vertices(tiles, i)[k].latitude >= bounds.sw_lat
             /\ Vertices(tiles, i)[k].latitude <= bounds.ne_lat
             /\ Vertices(tiles, i)[k].longitude >= bounds.sw_lon
             /\ Vertices(tiles, i)[k].longitude <= bounds.ne_lon

\* C20: in a find_places_in_grid run one payload is posted to the remote
\* client for each tile, in the order of the tiles: when the loop stands
\* at a tile a payload was posted for each tile before it, and at the end
\* of the run the payloads posted are as many as the tiles.
C20_OneCallPerTile ==
    GridRun
    => /\ pc = "for_tile" => Len(payloads) = next_tile - 1
       /\ pc = "done" => Len(payloads) = Len(tiles)

\* the divisor of line 64 in length units per degree, whatever the frame
DivisorInLengthUnits ==
    IF AtPole THEN RoundDiv(RoundDiv(m_per_deg_lon, Pow9), Pow6)
    ELSE m_per_deg_lon

\* C21: at every center, also at exactly 90 degrees of latitude,
\* generate_tiles_from_center divides by a non-zero divisor, so that no
\* ZeroDivisionError is raised, and at a center of exactly 90 degrees the
\* divisor is the substitute, 0.001 * 111319.488 metres per degree.
C21_PoleDivisorSubstituted ==
    BoxBuilt
    => /\ m_per_deg_lon # 0
       /\ ret.kind = "raise" => ret.exc # "ZeroDivisionError"
       /\ (AtPole /\ center_lat = 0)
            => DivisorInLengthUnits = RoundDiv(m_per_deg_lon_base, 10^3)

\* the worked example has run to its end
ExampleDone ==
    /\ entry = "generate_tiles_from_center"
    /\ \E call \in ExampleCalls :
           /\ origin = call.origin
           /\ center_lat = call.lat /\ center_lon = call.lon
           /\ box_size_meters = call.box
           /\ target_tile_count = call.count
    /\ pc = "done"

\* C22: for the center (37.7749, -122.4194), a box of 1000 m and 16 tiles
\* asked, generate_tiles_from_center returns exactly 16 tiles with ids
\* 0..15, in 4 rows of 4 columns (tile 4r + c has its south-west vertex r
\* tile heights north and c tile widths east of the corner of the box),
\* each 250 m high (to 1 mm), of 62500 m2 to 3 m2 (so 250 m wide to 2 cm)
\* and of area_sq_km 0.0625.
C22_ExampleGrid ==
    ExampleDone
    => /\ ret.kind = "return"
       /\ Len(ret.value) = 16
       /\ \A r \in 0 .. 3, c \in 0 .. 3 :
            LET tile == ret.value[4 * r + c + 1]
                south_west == tile.polygon.coordinates[1]
                north_east == tile.polygon.coordinates[3]
            IN  /\ tile.id = 4 * r + c
                /\ south_west.latitude = bounds.sw_lat + r * lat_tile_size
                /\ south_west.longitude = bounds.sw_lon + c * lon_tile_size
                /\ Abs(Length(north_east.latitude - south_west.latitude,
                              m_per_deg_lat) - 2500 * 10^3) <= 10
                /\ Abs(tile.area_sq_meters - 62500 * 100) <= 300
                /\ tile.area_sq_km = 625

C22_Witness ==
    /\ ExampleDone
    /\ Len(tiles) = 16
    /\ tiles[16].id = 15
    /\ tiles[16].area_sq_km = 625
    /\ tiles[1].area_sq_meters > tiles[16].area_sq_meters

\* C23: in the list find_places_in_grid builds, every entry with success
\* TRUE has a count >= 0 and every entry with success FALSE has the count
\* 0, whatever count the remote service returned.
C23_CountNonNegative ==
    GridRun
    => \A i \in 1 .. Len(results) :
         IF results[i].success THEN results[i].count >= 0
         ELSE results[i].count = 0

\* C24: the entry of a tile is made of that tile and of the outcome of the
\* tile's own remote call, and it is the entry the run returns for the
\* tile whatever the outcomes of the calls of the other tiles: every entry
\* built carries the fields of its tile, the entry of the latest call
\* carries that call's flag, and a run that has built entries returns
\* them.
C24_EntryOfOwnOutcome ==
    GridRun
    => /\ \A i \in 1 .. Len(results) :
            /\ results[i].tile_id = tiles[i].id
            /\ results[i].lat = tiles[i].centroid.lat
            /\ results[i].lon = tiles[i].centroid.lon
            /\ results[i].tile_area_sq_km = tiles[i].area_sq_km
       /\ (pc = "for_tile" /\ results # << >>)
            => results[Len(results)].success
                 = Get(search_result, "success", FALSE)
       /\ (pc = "done" /\ results # << >>)
            => /\ "grid_results" \in DOMAIN ret.value
               /\ ret.value.grid_results = results

\* the latest exchange is a failed request: an exception of the transport,
\* an HTTP error status, or a body that cannot be read
RequestFailed ==
    \/ http.kind = "exception"
    \/ http.status_code >= 400
    \/ http.body.type = "invalid"

\* C25: _post_request never raises to its caller: every failed request is
\* returned as (False, payload) where payload has an 'error' and a 'reason'
\* that are both strings, and every successful request is returned as
\* (True, response body).
C25_PostRequestContract ==
    (entry = "_post_request" /\ pc = "done") =>
        /\ ret.kind = "return"
        /\ IF RequestFailed
           THEN /\ ret.value.success = FALSE
                /\ { "error", "reason" } \subseteq DOMAIN ret.value.result
                /\ ret.value.result.error.type = "str"
                /\ ret.value.result.reason.type = "str"
           ELSE ret.value = [success |-> TRUE, result |-> http.body]

\* C26: whenever geocode succeeds for an address, get_coordinates for the
\* same address returns success = True with the same latitude and
\* longitude; it returns success = False only with the error information
\* of a failed geocode.
C26_CoordinatesAgree ==
    (entry = "get_coordinates" /\ pc = "done" /\ ~geocoded.raised) =>
        /\ ret.kind = "return"
        /\ geocoded.success =>
               (/\ ret.value.success
                /\ ret.value.result.latitude = geocoded.result.latitude
                /\ ret.value.result.longitude = geocoded.result.longitude)
        /\ ~ret.value.success =>
               (/\ ~geocoded.success
                /\ ret.value.result = geocoded.result)

\* the address of the run is not a text, or is empty or blank
InvalidAddress ==
    \/ address.type # "str"
    \/ \A i \in DOMAIN address.text : address.text[i] = " "

\* C27: geocode_address never raises and always returns a dictionary with
\* 'success' and 'query'; 'result' is present exactly when success is
\* True, 'error' and 'reason' exactly when success is False; an empty,
\* blank or non-string address yields success = False and no geocoding
\* request is sent.
C27_GeocodeAddressContract ==
    (entry = "geocode_address" /\ pc = "done") =>
        /\ ret.kind = "return"
        /\ { "success", "query" } \subseteq DOMAIN ret.value
        /\ ret.value.success \in BOOLEAN
        /\ "result" \in DOMAIN ret.value <=> ret.value.success
        /\ "error" \in DOMAIN ret.value <=> ~ret.value.success
        /\ "reason" \in DOMAIN ret.value <=> ~ret.value.success
        /\ InvalidAddress => ~ret.value.success /\ sent = << >>
                             /\ http = NoExchange

\* a blank address is turned down although the client could be built: no
\* request is sent
C27_Witness ==
    /\ entry = "geocode_address" /\ pc = "done"
    /\ api_key
    /\ address.type = "str" /\ address.text # << >> /\ InvalidAddress
    /\ ret.value.error = "Invalid input"
    /\ sent = << >>

\* generate_tiles has returned the grid of a valid box for a positive count
GridOfBoxReturned ==
    /\ entry = "generate_tiles" /\ pc = "done" /\ ret.kind = "return"
    /\ target_tile_count > 0

\* the smallest k with k * k >= n
CeilSqrt(n) == CHOOSE k \in 1 .. n : k * k >= n /\ (k - 1) * (k - 1) < n

\* the grid returned has as many rows as columns, the ceiling of the
\* square root of the target count: its tile count is the square of that,
\* not less than the target, and the target itself only for a perfect
\* square
SquareGridOfCeiling ==
    LET rows == { ret.value[i].polygon.coordinates[1].latitude :
                      i \in DOMAIN ret.value }
        cols == { ret.value[i].polygon.coordinates[1].longitude :
                      i \in DOMAIN ret.value }
        side == CeilSqrt(target_tile_count)
    IN  /\ Cardinality(rows) = side
        /\ Cardinality(cols) = side
        /\ Len(ret.value) = side * side
        /\ Len(ret.value) >= target_tile_count
        /\ Len(ret.value) = target_tile_count
               => \E k \in 1 .. target_tile_count :
                      k * k = target_tile_count

\* extents a hundred times the epsilon of the loop guards
WellAboveEpsilon == 100 * epsilon

C29_LoopsAdvance ==
    [][(/\ entry = "generate_tiles"
        /\ pc = "lon_loop"
        /\ ValidBounds(bounds)
        /\ target_tile_count > 0)
       => /\ pc' = "lon_loop" => current_lon' > current_lon
          /\ pc' = "lat_loop" => current_lat' > current_lat]_vars

\* C30: after any sequence of geocode tool calls in a session,
\* state["geocode_result"] is the response of the most recent tool call,
\* whatever was stored before; and GeoCoderAgent completes the workflow
\* only when that stored result exists, is not empty and has success True.
C30_LatestResultStored ==
    entry = "GeoCoderAgent" =>
        /\ tool_calls > 0 =>
               (/\ "geocode_result" \in DOMAIN state
                /\ state.geocode_result = tool_response)
        /\ (pc = "done" /\ ret.value.workflow = "completed") =>
               (/\ "geocode_result" \in DOMAIN state
                /\ DOMAIN state.geocode_result # {}
                /\ "success" \in DOMAIN state.geocode_result
                /\ state.geocode_result.success = TRUE)

\* the second tool call of a run failed after a request was answered
\* earlier in the run: its response is the one stored and the workflow is
\* given up
C30_Witness ==
    /\ entry = "GeoCoderAgent" /\ pc = "done"
    /\ tool_calls = 2
    /\ Len(sent) = 1
    /\ ~tool_response.success
    /\ tool_response.error = "Invalid input"
    /\ state.geocode_result = tool_response
    /\ ret.value.workflow = "aborted"

====
